---- MODULE Spec2Model ----
(***************************************************************************)
(* PawGate keyboard locker (pawgate-rs): the low-level keyboard hook, its  *)
(* hotkey matcher, the hotkey parser, and the tray loop's menu toggle,     *)
(* as a state machine over the shared AppState atomics.                    *)
(*                                                                         *)
(* Threads: the hook thread (run_keyboard_hook and the callback            *)
(* keyboard_hook_proc the OS calls on it) and the main/UI thread           *)
(* (run_tray_loop).  Each action is one atomic step: a step holds at most  *)
(* one access to an atomic another thread writes, so the load and the      *)
(* store of a toggle are separate steps on either thread.                  *)
(*                                                                         *)
(* Specifications: Spec, the hook engine with the menu toggle; SpecMatch,   *)
(* the matcher over every binding and held set; SpecLife, both threads     *)
(* from spawn to process exit (SpecLifeFair adds the hook thread's         *)
(* scheduling); SpecTray, SpecLife with the UI loop's lock-state poll and  *)
(* settings dialog; SpecConfig, start-up from every kind of configuration; *)
(* SpecParse, the parser over token sequences; SpecRound, the parser over  *)
(* every modifier set and key name.                                        *)
(*                                                                         *)
(* Of each event the callback returned from, `last` keeps what the policy  *)
(* (the closure given to HOOK_STATE.with) decided, `policy`, and what the  *)
(* procedure returned to the OS, `verdict`.                                *)
(***************************************************************************)
EXTENDS Integers, Sequences, FiniteSets

\* ------------------------------------------------------------------------
\* Win32 constants the source names (values of the windows crate).
MOD_ALT == 1
MOD_CONTROL == 2
MOD_SHIFT == 4
MOD_WIN == 8

VK_BACK == 8
VK_TAB == 9
VK_RETURN == 13
VK_SHIFT == 16
VK_CONTROL == 17
VK_MENU == 18
VK_PAUSE == 19
VK_ESCAPE == 27
VK_SPACE == 32
VK_PRIOR == 33
VK_NEXT == 34
VK_END == 35
VK_HOME == 36
VK_LEFT == 37
VK_UP == 38
VK_RIGHT == 39
VK_DOWN == 40
VK_SNAPSHOT == 44
VK_INSERT == 45
VK_DELETE == 46
VK_A == 65
VK_B == 66
VK_LWIN == 91
VK_RWIN == 92
VK_F1 == 112
VK_NUMLOCK == 144
VK_SCROLL == 145
VK_LSHIFT == 160
VK_RSHIFT == 161
VK_LCONTROL == 162
VK_RCONTROL == 163
VK_LMENU == 164
VK_RMENU == 165

\* HC_ACTION, the code of an event meant for this hook; a negative code marks
\* an event the procedure must pass on.
HC_ACTION == 0

\* ------------------------------------------------------------------------
\* Text.  A Rust string is a sequence of one-character strings.
Letters == <<"a","b","c","d","e","f","g","h","i","j","k","l","m",
             "n","o","p","q","r","s","t","u","v","w","x","y","z">>
Uppers == <<"A","B","C","D","E","F","G","H","I","J","K","L","M",
            "N","O","P","Q","R","S","T","U","V","W","X","Y","Z">>
Digits == <<"0","1","2","3","4","5","6","7","8","9">>

IndexIn(seq, c) == IF \E i \in 1..Len(seq) : seq[i] = c
                   THEN CHOOSE i \in 1..Len(seq) : seq[i] = c
                   ELSE 0

\* char::to_lowercase of an ASCII character
LowerChar(c) == IF IndexIn(Uppers, c) > 0 THEN Letters[IndexIn(Uppers, c)] ELSE c

\* str::to_lowercase
to_lowercase(s) == [i \in 1..Len(s) |-> LowerChar(s[i])]

\* s.split('+'): the pieces between the separators, empty pieces kept
RECURSIVE SplitFrom(_, _, _)
SplitFrom(s, i, cur) ==
    IF i > Len(s) THEN <<cur>>
    ELSE IF s[i] = "+" THEN <<cur>> \o SplitFrom(s, i + 1, <<>>)
    ELSE SplitFrom(s, i + 1, Append(cur, s[i]))

split_plus(s) == SplitFrom(s, 1, <<>>)

\* str::trim, over the one whitespace character of the alphabet
RECURSIVE trim_start(_)
trim_start(s) == IF Len(s) > 0 /\ s[1] = " " THEN trim_start(Tail(s)) ELSE s

RECURSIVE trim_end(_)
trim_end(s) == IF Len(s) > 0 /\ s[Len(s)] = " "
               THEN trim_end(SubSeq(s, 1, Len(s) - 1)) ELSE s

trim(s) == trim_end(trim_start(s))

\* key[1..].parse::<u32>(): -1 stands for Err
RECURSIVE ParseDigits(_, _)
ParseDigits(s, acc) ==
    IF Len(s) = 0 THEN acc
    ELSE IF IndexIn(Digits, s[1]) = 0 THEN -1
    ELSE ParseDigits(Tail(s), acc * 10 + (IndexIn(Digits, s[1]) - 1))

parse_u32(s) == IF Len(s) = 0 THEN -1 ELSE ParseDigits(s, 0)

\* modifiers |= bit, for a one-bit mask
HasBit(mask, bit) == (mask \div bit) % 2 = 1
BitOr(mask, bit) == IF HasBit(mask, bit) THEN mask ELSE mask + bit

\* ------------------------------------------------------------------------
\* config.rs: parse_hotkey

\* The "special keys" arms of the match, in source order.
NamedKeys ==
    << <<<<"s", "p", "a", "c", "e">>, VK_SPACE>>,
       <<<<"e", "n", "t", "e", "r">>, VK_RETURN>>,
       <<<<"r", "e", "t", "u", "r", "n">>, VK_RETURN>>,
       <<<<"e", "s", "c", "a", "p", "e">>, VK_ESCAPE>>,
       <<<<"e", "s", "c">>, VK_ESCAPE>>,
       <<<<"t", "a", "b">>, VK_TAB>>,
       <<<<"b", "a", "c", "k", "s", "p", "a", "c", "e">>, VK_BACK>>,
       <<<<"d", "e", "l", "e", "t", "e">>, VK_DELETE>>,
       <<<<"d", "e", "l">>, VK_DELETE>>,
       <<<<"i", "n", "s", "e", "r", "t">>, VK_INSERT>>,
       <<<<"i", "n", "s">>, VK_INSERT>>,
       <<<<"h", "o", "m", "e">>, VK_HOME>>,
       <<<<"e", "n", "d">>, VK_END>>,
       <<<<"p", "a", "g", "e", "u", "p">>, VK_PRIOR>>,
       <<<<"p", "g", "u", "p">>, VK_PRIOR>>,
       <<<<"p", "a", "g", "e", "d", "o", "w", "n">>, VK_NEXT>>,
       <<<<"p", "g", "d", "n">>, VK_NEXT>>,
       <<<<"u", "p">>, VK_UP>>,
       <<<<"d", "o", "w", "n">>, VK_DOWN>>,
       <<<<"l", "e", "f", "t">>, VK_LEFT>>,
       <<<<"r", "i", "g", "h", "t">>, VK_RIGHT>>,
       <<<<"n", "u", "m", "l", "o", "c", "k">>, VK_NUMLOCK>>,
       <<<<"s", "c", "r", "o", "l", "l", "l", "o", "c", "k">>, VK_SCROLL>>,
       <<<<"p", "a", "u", "s", "e">>, VK_PAUSE>>,
       <<<<"p", "r", "i", "n", "t", "s", "c", "r", "e", "e", "n">>, VK_SNAPSHOT>>,
       <<<<"p", "r", "t", "s", "c">>, VK_SNAPSHOT>> >>

NamedKeyVk(part) ==
    IF \E i \in 1..Len(NamedKeys) : NamedKeys[i][1] = part
    THEN NamedKeys[CHOOSE i \in 1..Len(NamedKeys) : NamedKeys[i][1] = part][2]
    ELSE -1

NoKey == -1

\* parse_part with the fault of trying the function-key arm before the
\* single-character arm.
parse_part_function_first(acc, part) ==
    IF part = <<"c","t","r","l">> \/ part = <<"c","o","n","t","r","o","l">>
    THEN [acc EXCEPT !.modifiers = BitOr(@, MOD_CONTROL)]
    ELSE IF part = <<"a","l","t">>
    THEN [acc EXCEPT !.modifiers = BitOr(@, MOD_ALT)]
    ELSE IF part = <<"s","h","i","f","t">>
    THEN [acc EXCEPT !.modifiers = BitOr(@, MOD_SHIFT)]
    ELSE IF part = <<"w","i","n">> \/ part = <<"w","i","n","d","o","w","s">>
    THEN [acc EXCEPT !.modifiers = BitOr(@, MOD_WIN)]
    ELSE IF Len(part) >= 1 /\ part[1] = "f" /\ Len(part) <= 3
    THEN LET num == parse_u32(Tail(part))
         IN  IF num >= 1 /\ num <= 24
             THEN [acc EXCEPT !.vk_code = VK_F1 + num - 1]
             ELSE acc
    ELSE IF Len(part) = 1
    THEN IF IndexIn(Letters, part[1]) > 0
         THEN [acc EXCEPT !.vk_code = 64 + IndexIn(Letters, part[1])]
         ELSE IF IndexIn(Digits, part[1]) > 0
         THEN [acc EXCEPT !.vk_code = 47 + IndexIn(Digits, part[1])]
         ELSE acc
    ELSE IF NamedKeyVk(part) # -1
    THEN [acc EXCEPT !.vk_code = NamedKeyVk(part)]
    ELSE acc

\* One pass of the loop body: the match on one part.  acc = [modifiers, vk_code],
\* vk_code = NoKey for None.
parse_part(acc, part) ==
    IF part = <<"c","t","r","l">> \/ part = <<"c","o","n","t","r","o","l">>
    THEN [acc EXCEPT !.modifiers = BitOr(@, MOD_CONTROL)]
    ELSE IF part = <<"a","l","t">>
    THEN [acc EXCEPT !.modifiers = BitOr(@, MOD_ALT)]
    ELSE IF part = <<"s","h","i","f","t">>
    THEN [acc EXCEPT !.modifiers = BitOr(@, MOD_SHIFT)]
    ELSE IF part = <<"w","i","n">> \/ part = <<"w","i","n","d","o","w","s">>
    THEN [acc EXCEPT !.modifiers = BitOr(@, MOD_WIN)]
    ELSE IF Len(part) = 1
    THEN IF IndexIn(Letters, part[1]) > 0
         THEN [acc EXCEPT !.vk_code = 64 + IndexIn(Letters, part[1])]
         ELSE IF IndexIn(Digits, part[1]) > 0
         THEN [acc EXCEPT !.vk_code = 47 + IndexIn(Digits, part[1])]
         ELSE acc
    ELSE IF Len(part) >= 1 /\ part[1] = "f" /\ Len(part) <= 3
    THEN LET num == parse_u32(Tail(part))
         IN  IF num >= 1 /\ num <= 24
             THEN [acc EXCEPT !.vk_code = VK_F1 + num - 1]
             ELSE acc
    ELSE IF NamedKeyVk(part) # -1
    THEN [acc EXCEPT !.vk_code = NamedKeyVk(part)]
    ELSE acc

RECURSIVE parse_parts(_, _)
parse_parts(acc, parts) ==
    IF Len(parts) = 0 THEN acc
    ELSE parse_parts(parse_part(acc, Head(parts)), Tail(parts))

\* parse_hotkey with the fault of leaving out to_lowercase.
parse_hotkey_case_sensitive(hotkey) ==
    LET split == split_plus(hotkey)
        parts == [i \in 1..Len(split) |-> trim(split[i])]
        r == parse_parts([modifiers |-> 0, vk_code |-> NoKey], parts)
    IN  IF r.vk_code = NoKey
        THEN [some |-> FALSE, modifiers |-> 0, vk |-> 0]
        ELSE [some |-> TRUE, modifiers |-> r.modifiers, vk |-> r.vk_code]

\* parse_hotkey(hotkey): [some |-> FALSE] for None, else Some((modifiers, vk))
parse_hotkey(hotkey) ==
    LET split == split_plus(to_lowercase(hotkey))
        parts == [i \in 1..Len(split) |-> trim(split[i])]
        r == parse_parts([modifiers |-> 0, vk_code |-> NoKey], parts)
    IN  IF r.vk_code = NoKey
        THEN [some |-> FALSE, modifiers |-> 0, vk |-> 0]
        ELSE [some |-> TRUE, modifiers |-> r.modifiers, vk |-> r.vk_code]

\* ------------------------------------------------------------------------
\* Bounds of the model.

\* Keys held down at once.
MaxHeld == 3
\* Matched hotkey keydowns and menu toggles a run may hold.
MaxHotkey == 2
MaxMenu == 1

\* The keys whose events the model delivers: left Control, left Shift, and
\* two letters.
Keys == {VK_LCONTROL, VK_LSHIFT, VK_A, VK_B}

\* The hook codes an event is delivered with: HC_ACTION, and a negative one.
Codes == {HC_ACTION, -1}

\* The hotkey texts the configuration file may hold.
ConfigTexts ==
    { <<"c","t","r","l","+","b">>,
      <<"S","h","i","f","t","+","C","t","r","l","+","A">> }

\* ------------------------------------------------------------------------
\* keyboard.rs: the matcher.  keys is what GetAsyncKeyState reports down.

GetAsyncKeyState(keys, vk) == vk \in keys

is_modifier_pressed(modifier, keys) ==
    IF modifier = MOD_CONTROL
    THEN GetAsyncKeyState(keys, VK_LCONTROL) \/ GetAsyncKeyState(keys, VK_RCONTROL)
    ELSE IF modifier = MOD_SHIFT
    THEN GetAsyncKeyState(keys, VK_LSHIFT) \/ GetAsyncKeyState(keys, VK_RSHIFT)
    ELSE IF modifier = MOD_ALT
    THEN GetAsyncKeyState(keys, VK_LMENU) \/ GetAsyncKeyState(keys, VK_RMENU)
    ELSE IF modifier = MOD_WIN
    THEN GetAsyncKeyState(keys, VK_LWIN) \/ GetAsyncKeyState(keys, VK_RWIN)
    ELSE FALSE

\* check_modifiers with the fault of at-least matching: a required modifier
\* must be held, an extra one is let through.
check_modifiers_superset(required, keys) ==
    \A m \in {MOD_CONTROL, MOD_SHIFT, MOD_ALT, MOD_WIN} :
        HasBit(required, m) => is_modifier_pressed(m, keys)

check_modifiers(required, keys) ==
    LET ctrl_required == HasBit(required, MOD_CONTROL)
        shift_required == HasBit(required, MOD_SHIFT)
        alt_required == HasBit(required, MOD_ALT)
        win_required == HasBit(required, MOD_WIN)
        ctrl_pressed == is_modifier_pressed(MOD_CONTROL, keys)
        shift_pressed == is_modifier_pressed(MOD_SHIFT, keys)
        alt_pressed == is_modifier_pressed(MOD_ALT, keys)
        win_pressed == is_modifier_pressed(MOD_WIN, keys)
    IN  /\ ctrl_required = ctrl_pressed
        /\ shift_required = shift_pressed
        /\ alt_required = alt_pressed
        /\ win_required = win_pressed

\* is_modifier_vk with the fault of counting the lock keys NumLock and
\* ScrollLock as modifiers.
is_modifier_vk_with_locks(vk) ==
    vk \in {VK_LCONTROL, VK_RCONTROL, VK_LSHIFT, VK_RSHIFT, VK_LMENU, VK_RMENU,
            VK_LWIN, VK_RWIN, VK_CONTROL, VK_SHIFT, VK_MENU, 144, 145}

\* is_modifier_vk with the fault of leaving out the unified Control, Shift and
\* Alt codes.
is_modifier_vk_sided_only(vk) ==
    vk \in {VK_LCONTROL, VK_RCONTROL, VK_LSHIFT, VK_RSHIFT, VK_LMENU, VK_RMENU,
            VK_LWIN, VK_RWIN}

is_modifier_vk(vk) ==
    vk \in {VK_LCONTROL, VK_RCONTROL, VK_LSHIFT, VK_RSHIFT, VK_LMENU, VK_RMENU,
            VK_LWIN, VK_RWIN, VK_CONTROL, VK_SHIFT, VK_MENU}

\* hotkey_pressed with the fault of not checking the modifiers.
hotkey_pressed_key_only(hs, vk_code, is_keydown, keys) ==
    /\ is_keydown
    /\ ~is_modifier_vk(vk_code)
    /\ vk_code = hs.hotkey_vk

\* hotkey_pressed with the fault of not telling key-up from keydown.
hotkey_pressed_any_edge(hs, vk_code, is_keydown, keys) ==
    /\ ~is_modifier_vk(vk_code)
    /\ vk_code = hs.hotkey_vk
    /\ check_modifiers(hs.hotkey_modifiers, keys)

\* The test of lines 165-167: a keydown of a non-modifier key that is the
\* trigger key, with exactly the required modifiers held.
hotkey_pressed(hs, vk_code, is_keydown, keys) ==
    /\ is_keydown
    /\ ~is_modifier_vk(vk_code)
    /\ vk_code = hs.hotkey_vk
    /\ check_modifiers(hs.hotkey_modifiers, keys)

\* ------------------------------------------------------------------------
\* keyboard.rs: keyboard_hook_proc.

\* hook_closure with the fault of locking on a match instead of toggling.
hook_closure_lock_only(hs, is_locked, vk_code, is_keydown, keys) ==
    IF ~hs.some
    THEN [store |-> FALSE, new_state |-> is_locked, ret |-> "none"]
    ELSE IF hotkey_pressed(hs, vk_code, is_keydown, keys)
    THEN [store |-> TRUE, new_state |-> TRUE, ret |-> "swallow"]
    ELSE IF is_locked
    THEN IF is_modifier_vk(vk_code)
         THEN [store |-> FALSE, new_state |-> is_locked, ret |-> "forward"]
         ELSE [store |-> FALSE, new_state |-> is_locked, ret |-> "swallow"]
    ELSE [store |-> FALSE, new_state |-> is_locked, ret |-> "none"]

\* The closure handed to HOOK_STATE.with (lines 160-194), given the value
\* line 162 loaded.  store: whether line 171 stores new_state; ret: the value
\* the closure returns, "swallow" for LRESULT(1), "forward" for the result of
\* CallNextHookEx, "none" when the closure runs to its end.
hook_closure(hs, is_locked, vk_code, is_keydown, keys) ==
    IF ~hs.some
    THEN [store |-> FALSE, new_state |-> is_locked, ret |-> "none"]
    ELSE IF hotkey_pressed(hs, vk_code, is_keydown, keys)
    THEN [store |-> TRUE, new_state |-> ~is_locked, ret |-> "swallow"]
    ELSE IF is_locked
    THEN IF is_modifier_vk(vk_code)
         THEN [store |-> FALSE, new_state |-> is_locked, ret |-> "forward"]
         ELSE [store |-> FALSE, new_state |-> is_locked, ret |-> "swallow"]
    ELSE [store |-> FALSE, new_state |-> is_locked, ret |-> "none"]

\* What keyboard_hook_proc returns to the OS.  A return inside the closure
\* leaves the closure only; HOOK_STATE.with(..); drops the closure's value
\* (line 194), and the procedure's one return is line 197's CallNextHookEx.
hook_proc_return(code, closure_ret) == "forward"

\* keyboard.rs 202-275: the table of key codes to block when locked (no code
\* reads it).  In the table's order: letters, digits, numpad digits, numpad
\* operators, F1-F24, special keys, OEM keys, media keys, browser keys, and
\* NumLock, ScrollLock, Pause, PrintScreen, Cancel.
BLOCKED_KEYS ==
    (65..90) \cup (48..57) \cup (96..105) \cup (106..111) \cup (112..135)
    \cup {8, 9, 13, 27, 32, 33, 34, 35, 36, 37, 38, 39, 40, 45, 46}
    \cup (186..192) \cup (219..222)
    \cup (173..183) \cup (166..172)
    \cup {144, 145, 19, 44, 3}

\* ------------------------------------------------------------------------
\* State.

VARIABLES
    config_hotkey,   \* Config.hotkey, as loaded by main
    locked,          \* AppState.locked
    should_quit,     \* AppState.should_quit
    hook_pc,         \* hook thread: "spawned", "pump", "panicked", "exited"
    HOOK_STATE,      \* the hook thread's thread-local Option<HookState>
    hook_installed,  \* the OS holds the handle SetWindowsHookExW returned
    key_state,       \* the keys the OS reports down (GetAsyncKeyState)
    cb,              \* the callback between its load (162) and its store (171)
    last,            \* the last event the callback returned from, and its outcome
    ui_pc,           \* main thread: "setup", "loop", "lock_store", "dialog",
                     \* "quit_posted" in run_tray_loop;
                     \* "returned", "join", "exited" in main
    ui_current,      \* run_tray_loop's local `current` (line 132)
    n_hotkey,        \* matched hotkey keydowns so far
    n_menu,          \* menu toggles so far
    chord_fired,     \* the trigger key is held since a keydown that toggled
    scen,            \* place in the Control+B scenario, -1 once off it
    config_file,     \* what Config::load found at the config path
    n_install,       \* calls of SetWindowsHookExW so far
    n_unhook,        \* calls of UnhookWindowsHookEx so far
    left_by,         \* how the pump loop was left: "none", "quit", "wm_quit"
    n_quit_stores,   \* stores to should_quit so far
    ui_config,       \* run_tray_loop's `config`: its hotkey text
    overlay,         \* the overlay window: whether it exists and is shown
    prev_locked,     \* run_tray_loop's `prev_locked`
    lock_text        \* the text of the tray menu's lock item

vars == <<config_hotkey, locked, should_quit, hook_pc, HOOK_STATE, hook_installed,
          key_state, cb, last, ui_pc, ui_current, n_hotkey, n_menu, chord_fired, scen,
          config_file, n_install, n_unhook, left_by,
          n_quit_stores, ui_config, overlay, prev_locked, lock_text>>

\* The variables of the thread lifecycle that the callback and the menu
\* leave alone.
life == <<config_file, n_install, n_unhook, left_by>>

\* The variables of run_tray_loop's settings and lock-state poll.
tray == <<ui_config, overlay, prev_locked, lock_text>>

NoHookState == [some |-> FALSE, hotkey_modifiers |-> 0, hotkey_vk |-> 0]

\* overlay.rs: create_overlay returned None (43, 69-83, 86-91), or the
\* window it made with WS_VISIBLE (line 73) and returned.
NoOverlay == [exists |-> FALSE, visible |-> FALSE]
ShownOverlay == [exists |-> TRUE, visible |-> TRUE]

NoCallback == [active |-> FALSE, code |-> 0, vk |-> 0, is_keydown |-> FALSE,
               is_locked |-> FALSE, edge |-> FALSE, refire |-> FALSE]

NoEvent == [valid |-> FALSE, code |-> 0, vk |-> 0, is_keydown |-> FALSE,
            is_locked |-> FALSE, matched |-> FALSE, held |-> {},
            policy |-> "none", verdict |-> "none", locked_after |-> FALSE,
            edge |-> FALSE, refire |-> FALSE]

\* The scenario: Control down, B down, B up, Control up, B down, B up,
\* Control down, B down.
Scenario ==
    << [vk |-> VK_LCONTROL, is_keydown |-> TRUE],
       [vk |-> VK_B, is_keydown |-> TRUE],
       [vk |-> VK_B, is_keydown |-> FALSE],
       [vk |-> VK_LCONTROL, is_keydown |-> FALSE],
       [vk |-> VK_B, is_keydown |-> TRUE],
       [vk |-> VK_B, is_keydown |-> FALSE],
       [vk |-> VK_LCONTROL, is_keydown |-> TRUE],
       [vk |-> VK_B, is_keydown |-> TRUE] >>

ScenarioStep(at, code, vk, is_keydown) ==
    IF /\ at >= 0
       /\ at < Len(Scenario)
       /\ code = HC_ACTION
       /\ Scenario[at + 1] = [vk |-> vk, is_keydown |-> is_keydown]
    THEN at + 1
    ELSE -1

\* config.rs: the hotkey of Config::default (line 28).
DefaultHotkey == <<"c","t","r","l","+","b">>

\* What the config path holds: no file, a file that cannot be read or is not
\* the JSON of a Config, or a file giving a hotkey text.
NoFile == [kind |-> "absent", hotkey |-> <<>>]
BadFile == [kind |-> "unreadable", hotkey |-> <<>>]
FileWith(text) == [kind |-> "present", hotkey |-> text]

\* config.rs: Config::load (45-58).  With no file the default is saved and
\* returned; a read or a serde error is returned as Err.
Config_load(file) ==
    IF file.kind = "absent"
    THEN [ok |-> TRUE, hotkey |-> DefaultHotkey]
    ELSE IF file.kind = "unreadable"
    THEN [ok |-> FALSE, hotkey |-> <<>>]
    ELSE [ok |-> TRUE, hotkey |-> file.hotkey]

\* main_config with the fault of taking Config::default() whatever was loaded.
main_config_drops_file(file) == DefaultHotkey

\* main.rs 55-61: the loaded configuration, Config::default() on Err.
main_config(file) ==
    LET c == Config_load(file)
    IN  IF c.ok THEN c.hotkey ELSE DefaultHotkey

\* main.rs: AppState::new (29-37), and the configuration main loaded (55-61);
\* the tray is set up and run_tray_loop is in its loop.
Init ==
    /\ config_file \in {FileWith(text) : text \in ConfigTexts}
    /\ config_hotkey = main_config(config_file)
    /\ n_install = 0
    /\ n_unhook = 0
    /\ left_by = "none"
    /\ n_quit_stores = 0
    /\ ui_config = config_hotkey
    /\ overlay = ShownOverlay
    /\ prev_locked = FALSE
    /\ lock_text = "Lock Keyboard"
    /\ locked = FALSE
    /\ should_quit = FALSE
    /\ hook_pc = "spawned"
    /\ HOOK_STATE = NoHookState
    /\ hook_installed = FALSE
    /\ key_state = {}
    /\ cb = NoCallback
    /\ last = NoEvent
    /\ ui_pc = "loop"
    /\ ui_current = FALSE
    /\ n_hotkey = 0
    /\ n_menu = 0
    /\ chord_fired = FALSE
    /\ scen = 0

\* ------------------------------------------------------------------------
\* The hook thread: run_keyboard_hook.

\* startup_binding with the fault of installing no binding when the text
\* yields none.
startup_binding_no_default(hotkey) ==
    LET p == parse_hotkey(hotkey)
    IN  IF p.some
        THEN [some |-> TRUE, hotkey_modifiers |-> p.modifiers, hotkey_vk |-> p.vk]
        ELSE [some |-> FALSE, hotkey_modifiers |-> 0, hotkey_vk |-> 0]

\* Line 40: the binding, the default Control+B when the text yields none.
startup_binding(hotkey) ==
    LET p == parse_hotkey(hotkey)
    IN  IF p.some
        THEN [some |-> TRUE, hotkey_modifiers |-> p.modifiers, hotkey_vk |-> p.vk]
        ELSE [some |-> TRUE, hotkey_modifiers |-> MOD_CONTROL, hotkey_vk |-> VK_B]

\* Lines 38-62, SetWindowsHookExW returning a handle.
HookInstall ==
    /\ hook_pc = "spawned"
    /\ HOOK_STATE' = startup_binding(config_hotkey)
    /\ hook_installed' = TRUE
    /\ hook_pc' = "pump"
    /\ n_install' = n_install + 1
    /\ UNCHANGED <<tray, n_quit_stores, config_file, n_unhook, left_by, config_hotkey, locked, should_quit, key_state, cb, last, ui_pc,
                   ui_current, n_hotkey, n_menu, chord_fired, scen>>

\* HookInstallFails with the fault of trying again after a refusal.
HookInstallFails_retry ==
    /\ hook_pc = "spawned"
    /\ n_install < 2
    /\ HOOK_STATE' = startup_binding(config_hotkey)
    /\ n_install' = n_install + 1
    /\ UNCHANGED <<tray, n_quit_stores, config_file, n_unhook, left_by, config_hotkey, locked, should_quit,
                   hook_pc, hook_installed, key_state, cb, last, ui_pc, ui_current,
                   n_hotkey, n_menu, chord_fired, scen>>

\* Lines 38-60, SetWindowsHookExW refusing: expect() panics the thread.
HookInstallFails ==
    /\ hook_pc = "spawned"
    /\ HOOK_STATE' = startup_binding(config_hotkey)
    /\ hook_pc' = "panicked"
    /\ n_install' = n_install + 1
    /\ UNCHANGED <<tray, n_quit_stores, config_file, n_unhook, left_by, config_hotkey, locked, should_quit, hook_installed, key_state, cb,
                   last, ui_pc, ui_current, n_hotkey, n_menu, chord_fired, scen>>

\* HookQuit with the fault of testing should_quit only when no key is down.
HookQuit_when_idle ==
    /\ hook_pc = "pump"
    /\ ~cb.active
    /\ should_quit
    /\ key_state = {}
    /\ hook_installed' = FALSE
    /\ n_unhook' = n_unhook + 1
    /\ left_by' = "quit"
    /\ hook_pc' = "exited"
    /\ UNCHANGED <<tray, n_quit_stores, config_file, n_install, config_hotkey, locked, should_quit, HOOK_STATE,
                   key_state, cb, last, ui_pc, ui_current, n_hotkey, n_menu,
                   chord_fired, scen>>

\* HookQuit with the fault of leaving the loop whatever should_quit holds.
HookQuit_unasked ==
    /\ hook_pc = "pump"
    /\ ~cb.active
    /\ hook_installed' = FALSE
    /\ n_unhook' = n_unhook + 1
    /\ left_by' = "quit"
    /\ hook_pc' = "exited"
    /\ UNCHANGED <<tray, n_quit_stores, config_file, n_install, config_hotkey, locked, should_quit, HOOK_STATE,
                   key_state, cb, last, ui_pc, ui_current, n_hotkey, n_menu,
                   chord_fired, scen>>

\* HookWmQuit with the fault of returning from the loop body on WM_QUIT,
\* past the unhook of line 82.
HookWmQuit_no_unhook ==
    /\ hook_pc = "pump"
    /\ ~cb.active
    /\ left_by' = "wm_quit"
    /\ hook_pc' = "exited"
    /\ UNCHANGED <<tray, n_quit_stores, config_file, n_install, n_unhook, hook_installed, config_hotkey,
                   locked, should_quit, HOOK_STATE, key_state, cb, last, ui_pc,
                   ui_current, n_hotkey, n_menu, chord_fired, scen>>

\* Lines 69-72 and 82: PeekMessageW hands the loop a WM_QUIT posted to the
\* hook thread; the loop breaks and the thread unhooks.  should_quit is not
\* read on this path.
HookWmQuit ==
    /\ hook_pc = "pump"
    /\ ~cb.active
    /\ hook_installed' = FALSE
    /\ n_unhook' = n_unhook + 1
    /\ left_by' = "wm_quit"
    /\ hook_pc' = "exited"
    /\ UNCHANGED <<tray, n_quit_stores, config_file, n_install, config_hotkey, locked, should_quit, HOOK_STATE,
                   key_state, cb, last, ui_pc, ui_current, n_hotkey, n_menu,
                   chord_fired, scen>>

\* Lines 67 and 82: the loop sees should_quit and the thread unhooks.  The
\* callback runs on this thread, inside PeekMessageW: none is under way
\* when the loop tests should_quit.
HookQuit ==
    /\ hook_pc = "pump"
    /\ ~cb.active
    /\ should_quit
    /\ hook_installed' = FALSE
    /\ n_unhook' = n_unhook + 1
    /\ left_by' = "quit"
    /\ hook_pc' = "exited"
    /\ UNCHANGED <<tray, n_quit_stores, config_file, n_install, config_hotkey, locked, should_quit, HOOK_STATE, key_state, cb, last,
                   ui_pc, ui_current, n_hotkey, n_menu, chord_fired, scen>>

\* The modifiers the OS reports held: one is held when its left or its right
\* key is down.
HeldModifiers(keys) ==
    (IF keys \cap {VK_LCONTROL, VK_RCONTROL} # {} THEN {MOD_CONTROL} ELSE {})
    \cup (IF keys \cap {VK_LSHIFT, VK_RSHIFT} # {} THEN {MOD_SHIFT} ELSE {})
    \cup (IF keys \cap {VK_LMENU, VK_RMENU} # {} THEN {MOD_ALT} ELSE {})
    \cup (IF keys \cap {VK_LWIN, VK_RWIN} # {} THEN {MOD_WIN} ELSE {})

\* The OS's key state after an event for vk.
KeyStateAfter(keys, vk, is_keydown) ==
    IF is_keydown THEN keys \cup {vk} ELSE keys \ {vk}

\* The record of a returned callback.
Outcome(code, vk, is_keydown, is_locked, r, after, edge, refire, keys) ==
    [valid |-> TRUE, code |-> code, vk |-> vk, is_keydown |-> is_keydown,
     is_locked |-> is_locked, matched |-> r.store,
     held |-> HeldModifiers(keys),
     policy |-> r.ret, verdict |-> hook_proc_return(code, r.ret),
     locked_after |-> after, edge |-> edge, refire |-> refire]

\* ForeignEvent with the fault of leaving out the test of line 155: the
\* closure runs on a negative code as on any other.
ForeignEvent_inspected(code, vk, is_keydown) ==
    /\ code < 0
    /\ LET r == hook_closure(HOOK_STATE, locked, vk, is_keydown, key_state)
       IN  IF r.store
           THEN /\ n_hotkey < MaxHotkey
                /\ cb' = [active |-> TRUE, code |-> code, vk |-> vk,
                          is_keydown |-> is_keydown, is_locked |-> locked,
                          edge |-> vk \notin key_state, refire |-> chord_fired]
                /\ UNCHANGED <<last, locked, n_hotkey>>
           ELSE /\ last' = Outcome(code, vk, is_keydown, locked, r, locked,
                                   FALSE, FALSE, key_state)
                /\ UNCHANGED <<cb, locked, n_hotkey>>

\* keyboard_hook_proc with a negative code (line 155 false, line 197).
ForeignEvent(code, vk, is_keydown) ==
    /\ code < 0
    /\ last' = [NoEvent EXCEPT !.valid = TRUE, !.code = code, !.vk = vk,
                               !.is_keydown = is_keydown, !.is_locked = locked,
                               !.locked_after = locked,
                               !.held = HeldModifiers(key_state),
                               !.verdict = hook_proc_return(code, "none")]
    /\ UNCHANGED <<locked, cb, n_hotkey>>

\* HandledEvent with the fault of matching against a state kept from the
\* events seen: the key of the last delivered keydown counts as still down.
HandledEvent_remembers(code, vk, is_keydown) ==
    /\ code >= 0
    /\ LET remembered == IF last.valid /\ last.is_keydown THEN {last.vk} ELSE {}
           r == hook_closure(HOOK_STATE, locked, vk, is_keydown,
                             key_state \cup remembered)
       IN  IF r.store
           THEN /\ n_hotkey < MaxHotkey
                /\ cb' = [active |-> TRUE, code |-> code, vk |-> vk,
                          is_keydown |-> is_keydown, is_locked |-> locked,
                          edge |-> vk \notin key_state, refire |-> chord_fired]
                /\ UNCHANGED <<last, locked, n_hotkey>>
           ELSE /\ last' = Outcome(code, vk, is_keydown, locked, r, locked,
                                   FALSE, FALSE, key_state)
                /\ UNCHANGED <<cb, locked, n_hotkey>>

\* keyboard_hook_proc with code >= 0: line 162 loads locked; with no hotkey
\* match the closure stores nothing and the procedure returns in this step;
\* on a match the callback stands before the store of line 171.
HandledEvent(code, vk, is_keydown) ==
    /\ code >= 0
    /\ LET r == hook_closure(HOOK_STATE, locked, vk, is_keydown, key_state)
       IN  IF r.store
           THEN /\ n_hotkey < MaxHotkey
                /\ cb' = [active |-> TRUE, code |-> code, vk |-> vk,
                          is_keydown |-> is_keydown, is_locked |-> locked,
                          edge |-> vk \notin key_state, refire |-> chord_fired]
                /\ UNCHANGED <<last, locked, n_hotkey>>
           ELSE /\ last' = Outcome(code, vk, is_keydown, locked, r, locked,
                                   FALSE, FALSE, key_state)
                /\ UNCHANGED <<cb, locked, n_hotkey>>

\* The OS delivers a key event to the installed hook while the hook thread
\* pumps messages (PeekMessageW, line 69), and the callback runs.
KeyDelivered(code, vk, is_keydown) ==
    /\ hook_pc = "pump"
    /\ hook_installed
    /\ ~cb.active
    /\ key_state' = KeyStateAfter(key_state, vk, is_keydown)
    /\ \/ ForeignEvent(code, vk, is_keydown)
       \/ HandledEvent(code, vk, is_keydown)
    /\ chord_fired' = (chord_fired /\ HOOK_STATE.hotkey_vk \in key_state')
    /\ scen' = IF cb'.active THEN scen ELSE ScenarioStep(scen, code, vk, is_keydown)
    /\ UNCHANGED <<tray, n_quit_stores, life, config_hotkey, should_quit, hook_pc, HOOK_STATE, hook_installed,
                   ui_pc, ui_current, n_menu>>

KeyEvent(code, vk, is_keydown) ==
    /\ Cardinality(KeyStateAfter(key_state, vk, is_keydown)) <= MaxHeld
    /\ KeyDelivered(code, vk, is_keydown)

\* Lines 170-175: the store of the toggled value, and the procedure's return.
HotkeyStore ==
    /\ cb.active
    /\ LET r == hook_closure(HOOK_STATE, cb.is_locked, cb.vk, cb.is_keydown, key_state)
       IN  /\ locked' = r.new_state
           /\ last' = Outcome(cb.code, cb.vk, cb.is_keydown, cb.is_locked, r,
                              r.new_state, cb.edge, cb.refire, key_state)
    /\ n_hotkey' = n_hotkey + 1
    /\ cb' = NoCallback
    /\ chord_fired' = TRUE
    /\ scen' = ScenarioStep(scen, cb.code, cb.vk, cb.is_keydown)
    /\ UNCHANGED <<tray, n_quit_stores, life, config_hotkey, should_quit, hook_pc, HOOK_STATE, hook_installed,
                   key_state, ui_pc, ui_current, n_menu>>

\* A key changes state with no callback: no hook is installed, or the OS
\* skipped a starved hook.
OsKeyChange(vk, is_keydown) ==
    /\ ~cb.active
    /\ KeyStateAfter(key_state, vk, is_keydown) # key_state
    /\ Cardinality(KeyStateAfter(key_state, vk, is_keydown)) <= MaxHeld
    /\ key_state' = KeyStateAfter(key_state, vk, is_keydown)
    /\ chord_fired' = (chord_fired /\ HOOK_STATE.hotkey_vk \in key_state')
    /\ scen' = -1
    /\ UNCHANGED <<tray, n_quit_stores, life, config_hotkey, locked, should_quit, hook_pc, HOOK_STATE,
                   hook_installed, cb, last, ui_pc, ui_current, n_hotkey, n_menu>>

\* ------------------------------------------------------------------------
\* The UI thread: run_tray_loop.

\* Lines 124-132: should_quit is clear, the menu event is MENU_LOCK, and
\* `current` is loaded.
UiMenuLock ==
    /\ ui_pc = "loop"
    /\ ~should_quit
    /\ n_menu < MaxMenu
    /\ ui_current' = locked
    /\ ui_pc' = "lock_store"
    /\ scen' = -1
    /\ UNCHANGED <<tray, n_quit_stores, life, config_hotkey, locked, should_quit, hook_pc, HOOK_STATE,
                   hook_installed, key_state, cb, last, n_hotkey, n_menu, chord_fired>>

\* Line 133: the store of !current.
UiLockStore ==
    /\ ui_pc = "lock_store"
    /\ locked' = ~ui_current
    /\ n_menu' = n_menu + 1
    /\ ui_pc' = "loop"
    /\ UNCHANGED <<tray, n_quit_stores, life, config_hotkey, should_quit, hook_pc, HOOK_STATE, hook_installed,
                   key_state, cb, last, ui_current, n_hotkey, chord_fired, scen>>

\* Lines 151-155: MENU_EXIT sets should_quit and leaves the loop.
UiMenuExit ==
    /\ ui_pc = "loop"
    /\ ~should_quit
    /\ should_quit' = TRUE
    /\ ui_pc' = "returned"
    /\ n_quit_stores' = n_quit_stores + 1
    /\ UNCHANGED <<tray, life, config_hotkey, locked, hook_pc, HOOK_STATE, hook_installed,
                   key_state, cb, last, ui_current, n_hotkey, n_menu, chord_fired, scen>>

\* Lines 91-120: the menu (the lock item reads "Lock Keyboard", line 93) and
\* the tray icon are made, create_overlay returns the window it made
\* visible or None, prev_locked is false and the loop is entered.
UiSetupOk ==
    /\ ui_pc = "setup"
    /\ ui_pc' = "loop"
    /\ overlay' \in {ShownOverlay, NoOverlay}
    /\ prev_locked' = FALSE
    /\ lock_text' = "Lock Keyboard"
    /\ UNCHANGED <<ui_config, n_quit_stores, life, config_hotkey, locked, should_quit, hook_pc, HOOK_STATE,
                   hook_installed, key_state, cb, last, ui_current, n_hotkey, n_menu,
                   chord_fired, scen>>

\* Lines 97-109: menu.append or TrayIconBuilder::build fails and `?` returns
\* the error before the loop.
UiSetupFails ==
    /\ ui_pc = "setup"
    /\ ui_pc' = "returned"
    /\ UNCHANGED <<tray, n_quit_stores, life, config_hotkey, locked, should_quit, hook_pc, HOOK_STATE,
                   hook_installed, key_state, cb, last, ui_current, n_hotkey, n_menu,
                   chord_fired, scen>>

\* Lines 124 and 178-184: should_quit is clear, and the message pump of the
\* iteration takes a WM_QUIT: should_quit is set and the inner loop left.
UiWmQuit ==
    /\ ui_pc = "loop"
    /\ ~should_quit
    /\ should_quit' = TRUE
    /\ n_quit_stores' = n_quit_stores + 1
    /\ UNCHANGED <<tray, life, config_hotkey, locked, hook_pc, HOOK_STATE, hook_installed,
                   key_state, cb, last, ui_pc, ui_current, n_hotkey, n_menu,
                   chord_fired, scen>>

\* UiLoopBreak with the fault of clearing the flag it has seen.
UiLoopBreak_consumes ==
    /\ ui_pc = "loop"
    /\ should_quit
    /\ should_quit' = FALSE
    /\ ui_pc' = "returned"
    /\ UNCHANGED <<tray, n_quit_stores, life, config_hotkey, locked, hook_pc, HOOK_STATE,
                   hook_installed, key_state, cb, last, ui_current, n_hotkey, n_menu,
                   chord_fired, scen>>

\* Lines 124-126 and 195-199: the loop sees should_quit, breaks and
\* run_tray_loop returns.
UiLoopBreak ==
    /\ ui_pc = "loop"
    /\ should_quit
    /\ ui_pc' = "returned"
    /\ UNCHANGED <<tray, n_quit_stores, life, config_hotkey, locked, should_quit, hook_pc, HOOK_STATE,
                   hook_installed, key_state, cb, last, ui_current, n_hotkey, n_menu,
                   chord_fired, scen>>

\* Lines 160-175: the lock state is loaded; when it differs from
\* prev_locked, and only if the overlay window exists, the overlay is shown
\* or hidden and the lock item's text set; prev_locked takes the value.
\* This is the poll of an iteration that found no menu event, or the rest of
\* an iteration after its menu event.
UiPoll ==
    /\ ui_pc \in {"loop", "quit_posted"}
    /\ LET current_locked == locked
           changed == current_locked # prev_locked
       IN  /\ overlay' = IF changed /\ overlay.exists
                            THEN [overlay EXCEPT !.visible = current_locked]
                            ELSE overlay
           /\ lock_text' = IF changed /\ overlay.exists
                              THEN (IF current_locked THEN "Unlock Keyboard"
                                                      ELSE "Lock Keyboard")
                              ELSE lock_text
           /\ prev_locked' = current_locked
    /\ UNCHANGED <<ui_config, n_quit_stores, life, config_hotkey, locked, should_quit,
                   hook_pc, HOOK_STATE, hook_installed, key_state, cb, last, ui_pc,
                   ui_current, n_hotkey, n_menu, chord_fired, scen>>

\* The hotkey texts typed into the settings dialog's edit control.
DialogTexts ==
    { <<"s","h","i","f","t","+","a">>, <<"c","t","r","l","+">> }

\* Lines 136-139 and settings_dialog.rs 44-92: MENU_SETTINGS; the dialog
\* window is created and its modal loop runs on the UI thread.  (When the
\* window cannot be created show_settings_dialog returns None and the
\* iteration goes on with nothing changed.)
UiSettingsOpen ==
    /\ ui_pc = "loop"
    /\ ~should_quit
    /\ ui_pc' = "dialog"
    /\ UNCHANGED <<tray, n_quit_stores, life, config_hotkey, locked, should_quit, hook_pc,
                   HOOK_STATE, hook_installed, key_state, cb, last, ui_current,
                   n_hotkey, n_menu, chord_fired, scen>>

\* UiSettingsOk with the fault of handing a saved hotkey to the hook.
UiSettingsOk_rebinds(text, saved) ==
    /\ ui_pc = "dialog"
    /\ ui_pc' = "quit_posted"
    /\ ui_config' = IF saved THEN text ELSE ui_config
    /\ config_file' = IF saved THEN FileWith(text) ELSE config_file
    /\ HOOK_STATE' = IF saved /\ HOOK_STATE.some THEN startup_binding(text)
                                                  ELSE HOOK_STATE
    /\ UNCHANGED <<overlay, prev_locked, lock_text, n_quit_stores, n_install, n_unhook,
                   left_by, config_hotkey, locked, should_quit, hook_pc,
                   hook_installed, key_state, cb, last, ui_current, n_hotkey, n_menu,
                   chord_fired, scen>>

\* settings_dialog.rs 383-391 and 429-436: OK takes the hotkey text of the
\* edit control as it is into DIALOG_RESULT and destroys the window;
\* WM_DESTROY (419-421) posts WM_QUIT to the UI thread; the modal loop sees
\* the window gone and breaks (104-107) before it reads another message.
\* tray.rs 139-149: the new config is saved, and on success becomes the
\* loop's config; the hook thread's copy and HOOK_STATE are not touched.
UiSettingsOk(text, saved) ==
    /\ ui_pc = "dialog"
    /\ ui_pc' = "quit_posted"
    /\ ui_config' = IF saved THEN text ELSE ui_config
    /\ config_file' = IF saved THEN FileWith(text) ELSE config_file
    /\ UNCHANGED <<overlay, prev_locked, lock_text, n_quit_stores, n_install, n_unhook,
                   left_by, config_hotkey, locked, should_quit, hook_pc, HOOK_STATE,
                   hook_installed, key_state, cb, last, ui_current, n_hotkey, n_menu,
                   chord_fired, scen>>

\* settings_dialog.rs 392-394 and 414-421: Cancel or the close button
\* destroys the window, WM_DESTROY posts WM_QUIT, the modal loop breaks and
\* show_settings_dialog returns None.
UiSettingsCancel ==
    /\ ui_pc = "dialog"
    /\ ui_pc' = "quit_posted"
    /\ UNCHANGED <<tray, n_quit_stores, life, config_hotkey, locked, should_quit, hook_pc,
                   HOOK_STATE, hook_installed, key_state, cb, last, ui_current,
                   n_hotkey, n_menu, chord_fired, scen>>

\* tray.rs 178-184 in the iteration that ran the dialog: PeekMessageW takes
\* the WM_QUIT the dialog's WM_DESTROY posted, and should_quit is stored.
UiQuitPosted ==
    /\ ui_pc = "quit_posted"
    /\ should_quit' = TRUE
    /\ n_quit_stores' = n_quit_stores + 1
    /\ ui_pc' = "loop"
    /\ UNCHANGED <<tray, life, config_hotkey, locked, hook_pc, HOOK_STATE,
                   hook_installed, key_state, cb, last, ui_current, n_hotkey, n_menu,
                   chord_fired, scen>>

\* ------------------------------------------------------------------------
\* The main thread after run_tray_loop: main.rs 77-88.

\* Lines 77-82: the result of run_tray_loop is logged, should_quit is stored.
MainSetQuit ==
    /\ ui_pc = "returned"
    /\ should_quit' = TRUE
    /\ ui_pc' = "join"
    /\ n_quit_stores' = n_quit_stores + 1
    /\ UNCHANGED <<tray, life, config_hotkey, locked, hook_pc, HOOK_STATE, hook_installed,
                   key_state, cb, last, ui_current, n_hotkey, n_menu, chord_fired, scen>>

\* MainJoin with the fault of not waiting for the hook thread.
MainJoin_no_wait ==
    /\ ui_pc = "join"
    /\ ui_pc' = "exited"
    /\ UNCHANGED <<tray, n_quit_stores, life, config_hotkey, locked, should_quit, hook_pc, HOOK_STATE,
                   hook_installed, key_state, cb, last, ui_current, n_hotkey, n_menu,
                   chord_fired, scen>>

\* Lines 85-88: join returns once the hook thread has ended, by return or by
\* panic (the Err is dropped), and main returns: the process exits.
MainJoin ==
    /\ ui_pc = "join"
    /\ hook_pc \in {"exited", "panicked"}
    /\ ui_pc' = "exited"
    /\ UNCHANGED <<tray, n_quit_stores, life, config_hotkey, locked, should_quit, hook_pc, HOOK_STATE,
                   hook_installed, key_state, cb, last, ui_current, n_hotkey, n_menu,
                   chord_fired, scen>>

\* ------------------------------------------------------------------------
Next ==
    \/ HookInstall
    \/ HookInstallFails
    \/ HookQuit
    \/ \E code \in Codes, vk \in Keys, is_keydown \in BOOLEAN :
          KeyEvent(code, vk, is_keydown)
    \/ HotkeyStore
    \/ \E vk \in Keys, is_keydown \in BOOLEAN : OsKeyChange(vk, is_keydown)
    \/ UiMenuLock
    \/ UiLockStore
    \/ UiMenuExit

Spec == Init /\ [][Next]_vars

\* ------------------------------------------------------------------------
\* The matcher on its own: the hook is installed with any binding of a letter
\* and any set of modifier keys is held; one keydown of a letter arrives.

ModifierKeys == {VK_LCONTROL, VK_RCONTROL, VK_LSHIFT, VK_RSHIFT, VK_LMENU, VK_RMENU,
                 VK_LWIN, VK_RWIN}

\* The text of a binding: the names of the modifiers of mask, then the key.
BindingText(mask, key) ==
    (IF HasBit(mask, MOD_CONTROL) THEN <<"c","t","r","l","+">> ELSE <<>>)
    \o (IF HasBit(mask, MOD_SHIFT) THEN <<"s","h","i","f","t","+">> ELSE <<>>)
    \o (IF HasBit(mask, MOD_ALT) THEN <<"a","l","t","+">> ELSE <<>>)
    \o (IF HasBit(mask, MOD_WIN) THEN <<"w","i","n","+">> ELSE <<>>)
    \o <<key>>

MatchTexts == {BindingText(mask, key) : mask \in 0..15, key \in {"a", "b"}}

InitMatch ==
    /\ config_file \in {FileWith(text) : text \in MatchTexts}
    /\ config_hotkey = main_config(config_file)
    /\ n_install = 1
    /\ n_unhook = 0
    /\ left_by = "none"
    /\ n_quit_stores = 0
    /\ ui_config = config_hotkey
    /\ overlay = ShownOverlay
    /\ prev_locked = FALSE
    /\ lock_text = "Lock Keyboard"
    /\ locked \in BOOLEAN
    /\ should_quit = FALSE
    /\ hook_pc = "pump"
    /\ HOOK_STATE = startup_binding(config_hotkey)
    /\ hook_installed = TRUE
    /\ key_state \in SUBSET ModifierKeys
    /\ cb = NoCallback
    /\ last = NoEvent
    /\ ui_pc = "loop"
    /\ ui_current = FALSE
    /\ n_hotkey = 0
    /\ n_menu = 0
    /\ chord_fired = FALSE
    /\ scen = -1

MatchEvent(vk) ==
    /\ ~last.valid
    /\ KeyDelivered(HC_ACTION, vk, TRUE)

NextMatch ==
    \/ \E vk \in {VK_A, VK_B} : MatchEvent(vk)
    \/ HotkeyStore

SpecMatch == InitMatch /\ [][NextMatch]_vars

\* ------------------------------------------------------------------------
\* The lives of the two threads, from the spawn of the hook thread to the
\* exit of the process, with the keys of the default chord.

LifeKeys == {VK_LCONTROL, VK_B}

\* main.rs 55-73: the default configuration is loaded, the hook thread is
\* spawned and run_tray_loop is entered.
InitLife ==
    /\ config_file = NoFile
    /\ config_hotkey = main_config(config_file)
    /\ n_install = 0
    /\ n_unhook = 0
    /\ left_by = "none"
    /\ n_quit_stores = 0
    /\ ui_config = config_hotkey
    /\ overlay = NoOverlay
    /\ prev_locked = FALSE
    /\ lock_text = "Lock Keyboard"
    /\ locked = FALSE
    /\ should_quit = FALSE
    /\ hook_pc = "spawned"
    /\ HOOK_STATE = NoHookState
    /\ hook_installed = FALSE
    /\ key_state = {}
    /\ cb = NoCallback
    /\ last = NoEvent
    /\ ui_pc = "setup"
    /\ ui_current = FALSE
    /\ n_hotkey = 0
    /\ n_menu = 0
    /\ chord_fired = FALSE
    /\ scen = -1

NextLife ==
    \/ HookInstall
    \/ HookInstallFails
    \/ HookQuit
    \/ HookWmQuit
    \/ \E vk \in LifeKeys, is_keydown \in BOOLEAN : KeyEvent(HC_ACTION, vk, is_keydown)
    \/ HotkeyStore
    \/ UiSetupOk
    \/ UiSetupFails
    \/ UiMenuLock
    \/ UiLockStore
    \/ UiMenuExit
    \/ UiWmQuit
    \/ UiLoopBreak
    \/ MainSetQuit
    \/ MainJoin

SpecLife == InitLife /\ [][NextLife]_vars

\* The hook thread is scheduled: a step of its loop that stays possible is
\* taken, and a callback that has loaded the state goes on to its store.
SpecLifeFair ==
    InitLife /\ [][NextLife]_vars /\ WF_vars(HookQuit) /\ WF_vars(HotkeyStore)

\* ------------------------------------------------------------------------
\* SpecTray: both threads as in SpecLife, with the UI loop's lock-state poll
\* and its settings dialog.
NextTray ==
    \/ NextLife
    \/ UiPoll
    \/ UiSettingsOpen
    \/ \E text \in DialogTexts, saved \in BOOLEAN : UiSettingsOk(text, saved)
    \/ UiSettingsCancel
    \/ UiQuitPosted

SpecTray == InitLife /\ [][NextTray]_vars

\* ------------------------------------------------------------------------
\* Start-up from every kind of configuration: no file, a file that cannot be
\* loaded, hotkey texts that name no trigger key, and two that name one.

\* Texts from which no trigger key is recognized: "ctrl++", modifiers only,
\* the empty text, a blank, a lone "+", an unknown name, a function key out
\* of range and a punctuation mark.
MalformedTexts ==
    { <<"c","t","r","l","+","+">>,
      <<"c","t","r","l","+","s","h","i","f","t">>,
      <<>>,
      <<" ">>,
      <<"+">>,
      <<"c","t","r","l","+","f","o","o">>,
      <<"a","l","t","+","f","2","5">>,
      <<"s","h","i","f","t","+","-">> }

ValidTexts == { <<"s","h","i","f","t","+","a">>, <<"C","o","n","t","r","o","l","+","B">> }

ConfigFiles ==
    {NoFile, BadFile} \cup {FileWith(text) : text \in MalformedTexts \cup ValidTexts}

ConfigKeys == {VK_LCONTROL, VK_LSHIFT, VK_A, VK_B}

\* main.rs 55-73 with any of the configurations.
InitConfig ==
    /\ config_file \in ConfigFiles
    /\ config_hotkey = main_config(config_file)
    /\ n_install = 0
    /\ n_unhook = 0
    /\ left_by = "none"
    /\ n_quit_stores = 0
    /\ ui_config = config_hotkey
    /\ overlay = ShownOverlay
    /\ prev_locked = FALSE
    /\ lock_text = "Lock Keyboard"
    /\ locked = FALSE
    /\ should_quit = FALSE
    /\ hook_pc = "spawned"
    /\ HOOK_STATE = NoHookState
    /\ hook_installed = FALSE
    /\ key_state = {}
    /\ cb = NoCallback
    /\ last = NoEvent
    /\ ui_pc = "loop"
    /\ ui_current = FALSE
    /\ n_hotkey = 0
    /\ n_menu = 0
    /\ chord_fired = FALSE
    /\ scen = -1

NextConfig ==
    \/ HookInstall
    \/ HookInstallFails
    \/ \E vk \in ConfigKeys, is_keydown \in BOOLEAN : KeyEvent(HC_ACTION, vk, is_keydown)
    \/ HotkeyStore

SpecConfig == InitConfig /\ [][NextConfig]_vars

\* ------------------------------------------------------------------------
\* The parser on its own: the hotkey text is any sequence of up to MaxTokens
\* tokens joined by "+", and the hook thread parses it at start-up.

MaxTokens == 3

\* The tokens texts are written with, and what each is to mean: a modifier,
\* a key, or nothing the parser knows ("foo", and the empty token).
TokenTable ==
    { [tok |-> <<"c","t","r","l">>,                 kind |-> "mod", mod |-> MOD_CONTROL, vk |-> NoKey],
      [tok |-> <<"C","o","n","t","r","o","l">>,     kind |-> "mod", mod |-> MOD_CONTROL, vk |-> NoKey],
      [tok |-> <<"S","H","I","F","T">>,             kind |-> "mod", mod |-> MOD_SHIFT,   vk |-> NoKey],
      [tok |-> <<"a","l","t">>,                     kind |-> "mod", mod |-> MOD_ALT,     vk |-> NoKey],
      [tok |-> <<"w","i","n">>,                     kind |-> "mod", mod |-> MOD_WIN,     vk |-> NoKey],
      [tok |-> <<"W","i","n","d","o","w","s">>,     kind |-> "mod", mod |-> MOD_WIN,     vk |-> NoKey],
      [tok |-> <<"a">>,                             kind |-> "key", mod |-> 0, vk |-> VK_A],
      [tok |-> <<"B">>,                             kind |-> "key", mod |-> 0, vk |-> VK_B],
      [tok |-> <<"b">>,                             kind |-> "key", mod |-> 0, vk |-> VK_B],
      [tok |-> <<"F","5">>,                         kind |-> "key", mod |-> 0, vk |-> VK_F1 + 4],
      [tok |-> <<"f","o","o">>,                     kind |-> "junk", mod |-> 0, vk |-> NoKey],
      [tok |-> <<>>,                                kind |-> "junk", mod |-> 0, vk |-> NoKey] }

TokenSeqs == UNION {[1..n -> TokenTable] : n \in 1..MaxTokens}

\* The text of a token sequence: the tokens with "+" between them.
RECURSIVE JoinPlus(_)
JoinPlus(toks) ==
    IF Len(toks) = 1 THEN toks[1].tok
    ELSE toks[1].tok \o <<"+">> \o JoinPlus(Tail(toks))

\* A configuration file whose hotkey was written as toks.
FileWritten(toks) == [kind |-> "present", hotkey |-> JoinPlus(toks), tokens |-> toks]

InitParse ==
    /\ config_file \in {FileWritten(toks) : toks \in TokenSeqs}
    /\ config_hotkey = main_config(config_file)
    /\ n_install = 0
    /\ n_unhook = 0
    /\ left_by = "none"
    /\ n_quit_stores = 0
    /\ ui_config = config_hotkey
    /\ overlay = ShownOverlay
    /\ prev_locked = FALSE
    /\ lock_text = "Lock Keyboard"
    /\ locked = FALSE
    /\ should_quit = FALSE
    /\ hook_pc = "spawned"
    /\ HOOK_STATE = NoHookState
    /\ hook_installed = FALSE
    /\ key_state = {}
    /\ cb = NoCallback
    /\ last = NoEvent
    /\ ui_pc = "loop"
    /\ ui_current = FALSE
    /\ n_hotkey = 0
    /\ n_menu = 0
    /\ chord_fired = FALSE
    /\ scen = -1

NextParse ==
    \/ HookInstall
    \/ HookInstallFails

SpecParse == InitParse /\ [][NextParse]_vars

\* ------------------------------------------------------------------------
\* The parser on the texts of bindings: any of the sixteen modifier sets with
\* any key the parser has a name for, written as the modifier names and the
\* key name joined by "+".

\* The decimal digits of n, 1 <= n <= 99.
DecimalText(n) ==
    IF n < 10 THEN <<Digits[n + 1]>>
    ELSE <<Digits[(n \div 10) + 1], Digits[(n % 10) + 1]>>

\* The keys with a name, and the code each name stands for: the letters, the
\* digits, f1..f24 and the named keys.
KeyTable ==
    {[name |-> <<Letters[i]>>, vk |-> VK_A + i - 1] : i \in 1..Len(Letters)}
    \cup {[name |-> <<Digits[i]>>, vk |-> 48 + i - 1] : i \in 1..Len(Digits)}
    \cup {[name |-> <<"f">> \o DecimalText(n), vk |-> VK_F1 + n - 1] : n \in 1..24}
    \cup {[name |-> NamedKeys[i][1], vk |-> NamedKeys[i][2]] : i \in 1..Len(NamedKeys)}

\* The text of a binding: the names of the modifiers of mask, then the name
\* of the key.
FormatBinding(mask, name) ==
    (IF HasBit(mask, MOD_CONTROL) THEN <<"c","t","r","l","+">> ELSE <<>>)
    \o (IF HasBit(mask, MOD_ALT) THEN <<"a","l","t","+">> ELSE <<>>)
    \o (IF HasBit(mask, MOD_SHIFT) THEN <<"s","h","i","f","t","+">> ELSE <<>>)
    \o (IF HasBit(mask, MOD_WIN) THEN <<"w","i","n","+">> ELSE <<>>)
    \o name

\* A configuration file whose hotkey is the text of the binding (mask, key).
FileFormatted(mask, key) ==
    [kind |-> "present", hotkey |-> FormatBinding(mask, key.name),
     modifiers |-> mask, vk |-> key.vk]

InitRound ==
    /\ config_file \in {FileFormatted(mask, key) : mask \in 0..15, key \in KeyTable}
    /\ config_hotkey = main_config(config_file)
    /\ n_install = 0
    /\ n_unhook = 0
    /\ left_by = "none"
    /\ n_quit_stores = 0
    /\ ui_config = config_hotkey
    /\ overlay = ShownOverlay
    /\ prev_locked = FALSE
    /\ lock_text = "Lock Keyboard"
    /\ locked = FALSE
    /\ should_quit = FALSE
    /\ hook_pc = "spawned"
    /\ HOOK_STATE = NoHookState
    /\ hook_installed = FALSE
    /\ key_state = {}
    /\ cb = NoCallback
    /\ last = NoEvent
    /\ ui_pc = "loop"
    /\ ui_current = FALSE
    /\ n_hotkey = 0
    /\ n_menu = 0
    /\ chord_fired = FALSE
    /\ scen = -1

NextRound ==
    \/ HookInstall
    \/ HookInstallFails

SpecRound == InitRound /\ [][NextRound]_vars

\* ------------------------------------------------------------------------
\* The terms of the properties.

\* The keys the hook engine is to treat as modifiers.
ModifierCodes == {VK_LCONTROL, VK_RCONTROL, VK_LSHIFT, VK_RSHIFT, VK_LMENU, VK_RMENU,
                  VK_LWIN, VK_RWIN, VK_CONTROL, VK_SHIFT, VK_MENU}

\* The modifier set a mask requires.
RequiredModifiers(mask) ==
    {m \in {MOD_CONTROL, MOD_SHIFT, MOD_ALT, MOD_WIN} : HasBit(mask, m)}

\* ev was an event meant for the hook: a keydown of a non-modifier key.
NonModifierKeydown(ev) ==
    ev.valid /\ ev.code >= 0 /\ ev.is_keydown /\ ev.vk \notin ModifierCodes

\* ev's key and the modifiers held when it arrived are the binding.
MatchesBinding(ev) ==
    /\ ev.vk = HOOK_STATE.hotkey_vk
    /\ ev.held = RequiredModifiers(HOOK_STATE.hotkey_modifiers)

\* The OS was told to swallow ev.
Swallowed(ev) == ev.verdict = "swallow"

\* ev passed: the policy did not decide to swallow it, and the procedure
\* forwarded it.
Forwarded(ev) == ev.verdict = "forward" /\ ev.policy # "swallow"

ControlB == [some |-> TRUE, hotkey_modifiers |-> MOD_CONTROL, hotkey_vk |-> VK_B]

\* C1: a keydown of a non-modifier key that arrives while LOCKED and does not
\* match the binding is swallowed, and the state stays LOCKED.
C1_LockedKeydownSwallowed ==
    (NonModifierKeydown(last) /\ last.is_locked /\ ~MatchesBinding(last))
        => (Swallowed(last) /\ last.locked_after)

\* C2: an event for a modifier key, keydown or keyup, is forwarded in either
\* lock state: the last event if it was one, and any that would arrive now.
C2_ModifiersForwarded ==
    /\ (last.valid /\ last.vk \in ModifierCodes) => Forwarded(last)
    /\ HOOK_STATE.some =>
         \A vk \in ModifierCodes, is_keydown \in BOOLEAN, code \in Codes :
            LET r == hook_closure(HOOK_STATE, locked, vk, is_keydown, key_state)
            IN  /\ r.ret # "swallow"
                /\ ~r.store
                /\ hook_proc_return(code, r.ret) = "forward"

C2_Witness ==
    /\ last.valid /\ last.code >= 0 /\ last.vk = VK_LSHIFT /\ last.is_keydown
    /\ last.is_locked /\ locked
    /\ Forwarded(last)

\* C3: a keydown of a non-modifier key that matches the binding flips the
\* lock state and is swallowed.
C3_MatchTogglesAndSwallows ==
    (NonModifierKeydown(last) /\ MatchesBinding(last))
        => (last.locked_after = ~last.is_locked /\ Swallowed(last))

\* C4: a keydown of a non-modifier key is taken for the hotkey exactly when
\* the key is the trigger key and the set of held modifiers equals the
\* required set.
C4_ExactMatch ==
    NonModifierKeydown(last) =>
        (last.matched <=>
            (/\ last.vk = HOOK_STATE.hotkey_vk
             /\ HeldModifiers(key_state) = RequiredModifiers(HOOK_STATE.hotkey_modifiers)))

\* Control+B with Control and Shift held and B pressed: no match.
C4_Witness ==
    /\ HOOK_STATE = ControlB
    /\ key_state = {VK_LCONTROL, VK_RSHIFT, VK_B}
    /\ NonModifierKeydown(last) /\ last.vk = VK_B
    /\ ~last.matched

C6_NoDoubleFire == ~(last.valid /\ last.matched /\ last.refire)

\* C7: with no menu toggle, the state is LOCKED iff the number of matched
\* hotkey keydowns is odd.
C7_HotkeyParity == (n_menu = 0) => (locked <=> (n_hotkey % 2 = 1))

\* Two matched keydowns on independent edges, and the state is back.
C7_Witness ==
    /\ n_menu = 0 /\ ui_pc = "loop" /\ n_hotkey = 2
    /\ last.valid /\ last.matched /\ last.edge /\ ~last.refire
    /\ ~locked

\* C8: no toggle is lost: with no toggle in progress, the state is LOCKED
\* iff the number of hotkey matches and menu toggles together is odd.
C8_NoLostToggle ==
    (~cb.active /\ ui_pc # "lock_store") => (locked <=> ((n_hotkey + n_menu) % 2 = 1))

\* C9: the Control+B scenario: each B keydown is swallowed, the state is
\* LOCKED after the first and the lone one and UNLOCKED after the last, and
\* every Control event is forwarded.
C9_Scenario ==
    (HOOK_STATE = ControlB /\ last.valid) =>
        /\ scen \in {1, 4, 7} => Forwarded(last)
        /\ scen = 2 => (Swallowed(last) /\ locked)
        /\ scen = 5 => (Swallowed(last) /\ locked)
        /\ scen = 8 => (Swallowed(last) /\ ~locked)

\* C10: the state starts UNLOCKED, and the callback changes it on nothing but
\* a keydown of a non-modifier key that matches the binding.
C10_InertBetweenToggles ==
    /\ (n_hotkey = 0 /\ n_menu = 0) => ~locked
    /\ (last.valid /\ last.locked_after # last.is_locked)
          => (NonModifierKeydown(last) /\ MatchesBinding(last))

\* The key-up of the trigger key with the required modifiers held.
C10_Witness ==
    /\ last.valid /\ last.code >= 0 /\ ~last.is_keydown
    /\ last.vk = HOOK_STATE.hotkey_vk
    /\ last.held = RequiredModifiers(HOOK_STATE.hotkey_modifiers)
    /\ last.is_locked /\ last.locked_after

\* C11: an event delivered with a negative code is forwarded with nothing
\* inspected: the closure does not run, no match is taken and the lock state
\* is as before, also when the key and the held modifiers are the binding.
C11_ForeignForwarded ==
    (last.valid /\ last.code < 0) =>
        /\ last.verdict = "forward"
        /\ last.policy = "none"
        /\ ~last.matched
        /\ last.locked_after = last.is_locked

\* A keydown of the trigger key with the required modifiers held, delivered
\* with a negative code.
C11_Witness ==
    /\ last.valid /\ last.code < 0 /\ last.is_keydown
    /\ HOOK_STATE.some /\ MatchesBinding(last)
    /\ last.verdict = "forward" /\ ~last.locked_after /\ ~locked

\* C12: once should_quit is set while the hook is installed and the hook
\* thread is in its pump loop, the thread, when scheduled, leaves the loop,
\* unhooks and ends, whatever key events keep arriving.
C12_QuitEndsHookThread ==
    (should_quit /\ hook_installed /\ hook_pc = "pump")
        ~> (hook_pc = "exited" /\ ~hook_installed /\ n_unhook = 1)

\* The thread left on should_quit with keys down and events handled.
C12_Witness ==
    /\ should_quit /\ hook_pc = "exited" /\ left_by = "quit" /\ ~hook_installed
    /\ last.valid /\ key_state # {}

\* C13: on both ways out of the pump loop, should_quit seen or WM_QUIT taken,
\* the hook installed once is unhooked exactly once, before the thread ends,
\* and the callback handles no event after the unhook.
C13_UnhookedOnceOnExit ==
    /\ [](hook_pc = "exited" =>
            (~hook_installed /\ n_unhook = 1 /\ n_install = 1
             /\ left_by \in {"quit", "wm_quit"}))
    /\ [](hook_pc # "exited" => n_unhook = 0)
    /\ [][n_unhook > 0 => (last' = last /\ cb' = cb /\ n_hotkey' = n_hotkey)]_vars

\* The loop was left on WM_QUIT, should_quit clear, after events were handled.
C13_Witness ==
    /\ hook_pc = "exited" /\ left_by = "wm_quit" /\ ~should_quit
    /\ ~hook_installed /\ n_unhook = 1 /\ last.valid

\* C14, as claimed: the hook is unhooked only after the pump loop has seen
\* should_quit set, and with no callback under way.
C14_UnhookOnlyAfterQuitSeen ==
    [][(hook_installed /\ ~hook_installed') => (should_quit /\ ~cb.active)]_vars

\* C14, amended: the hook is unhooked only after the pump loop was left, on
\* should_quit seen set or on a WM_QUIT taken, and with no callback under way.
C14_UnhookAfterLoopLeft ==
    [][(hook_installed /\ ~hook_installed') =>
          /\ hook_pc = "pump" /\ hook_pc' = "exited"
          /\ ~cb.active
          /\ \/ (left_by' = "quit" /\ should_quit)
             \/ left_by' = "wm_quit"]_vars

\* The hook was unhooked on should_quit, after a callback had stored.
C14_Witness ==
    /\ n_unhook = 1 /\ left_by = "quit" /\ should_quit /\ ~hook_installed
    /\ last.valid /\ last.matched /\ ~cb.active

\* C15: however run_tray_loop returns, main stores should_quit and then
\* joins: the process has not exited while the hook thread runs or the hook
\* is installed.
C15_ExitAfterTeardown ==
    /\ ui_pc \in {"join", "exited"} => should_quit
    /\ ui_pc = "exited" => (hook_pc \in {"exited", "panicked"} /\ ~hook_installed)

\* The process exited after a hook thread that handled events and unhooked.
C15_Witness ==
    /\ ui_pc = "exited" /\ hook_pc = "exited" /\ left_by = "quit"
    /\ n_install = 1 /\ n_unhook = 1 /\ last.valid

\* C16: a refused install ends the hook thread alone: no pump loop, one
\* attempt, no hook and no callback; the UI loop goes on handling the menu,
\* and the join of a later exit returns.
C16_InstallRefusalIsolated ==
    /\ hook_pc = "panicked" =>
          /\ n_install = 1 /\ ~hook_installed /\ n_unhook = 0 /\ left_by = "none"
          /\ ~last.valid /\ ~cb.active /\ n_hotkey = 0
          /\ ui_pc = "loop" /\ ~should_quit => ENABLED (UiMenuExit \/ UiWmQuit)
          /\ ui_pc = "loop" /\ ~should_quit /\ n_menu < MaxMenu => ENABLED UiMenuLock
          /\ ui_pc = "join" => ENABLED MainJoin
    /\ n_install <= 1

\* The install was refused, the menu toggled the lock, and the process
\* exited.
C16_Witness ==
    /\ hook_pc = "panicked" /\ n_install = 1
    /\ n_menu = 1 /\ locked
    /\ ui_pc = "exited"

\* C17: a hotkey text from which no trigger key is recognized parses to no
\* binding, and the hook thread starts with Control+B: a keydown is taken
\* for the hotkey iff it is B with exactly Control held, and nothing else
\* changes the lock state.
C17_MalformedFallsBackToControlB ==
    config_hotkey \in MalformedTexts =>
        /\ ~parse_hotkey(config_hotkey).some
        /\ hook_pc # "spawned" => HOOK_STATE = ControlB
        /\ NonModifierKeydown(last) =>
              (last.matched <=> (last.vk = VK_B /\ last.held = {MOD_CONTROL}))
        /\ (last.valid /\ last.locked_after # last.is_locked) =>
              (last.is_keydown /\ last.vk = VK_B /\ last.held = {MOD_CONTROL})

\* "ctrl++" was configured, and Control+B locked.
C17_Witness ==
    /\ config_hotkey = <<"c","t","r","l","+","+">>
    /\ hook_installed /\ HOOK_STATE = ControlB
    /\ last.valid /\ last.matched /\ last.vk = VK_B /\ last.held = {MOD_CONTROL}
    /\ locked

\* A bad value given by the user: a file that cannot be loaded, or a hotkey
\* text that names no trigger key.
ExplicitBadValue ==
    \/ config_file.kind = "unreadable"
    \/ config_file.kind = "present" /\ config_file.hotkey \in MalformedTexts

\* C18, as claimed: a bad value given by the user leaves the hotkey
\* disabled: no binding is installed and no keydown toggles the lock; the
\* default is in use only when no file was found.
C18_BadValueDisablesHotkey ==
    (ExplicitBadValue /\ hook_pc # "spawned") =>
        (~HOOK_STATE.some /\ ~cb.active /\ n_hotkey = 0)

\* C18, amended: the hotkey is never disabled: a bad value given by the user
\* is replaced by the default, Control+B, as an absent file is, and a text
\* that names a trigger key is bound as given.
C18_BadValueGetsDefault ==
    hook_pc # "spawned" =>
        /\ HOOK_STATE.some
        /\ (ExplicitBadValue \/ config_file.kind = "absent") => HOOK_STATE = ControlB
        /\ config_file = FileWith(<<"s","h","i","f","t","+","a">>) =>
              HOOK_STATE = [some |-> TRUE, hotkey_modifiers |-> MOD_SHIFT, hotkey_vk |-> VK_A]

\* The file could not be loaded, and Control+B locked.
C18_Witness ==
    /\ config_file = BadFile
    /\ hook_installed /\ HOOK_STATE = ControlB
    /\ last.valid /\ last.matched /\ last.vk = VK_B /\ locked

\* What a token sequence names: its modifiers, its key tokens, and whether
\* every token is a known one.
ModifiersNamed(toks) == {toks[i].mod : i \in {j \in 1..Len(toks) : toks[j].kind = "mod"}}

KeyTokens(toks) == {i \in 1..Len(toks) : toks[i].kind = "key"}

AllRecognized(toks) == \A i \in 1..Len(toks) : toks[i].kind # "junk"

MaskOf(mods) ==
    (IF MOD_ALT \in mods THEN MOD_ALT ELSE 0)
    + (IF MOD_CONTROL \in mods THEN MOD_CONTROL ELSE 0)
    + (IF MOD_SHIFT \in mods THEN MOD_SHIFT ELSE 0)
    + (IF MOD_WIN \in mods THEN MOD_WIN ELSE 0)

\* C19: a text with an unrecognized token, or with more than one key token,
\* parses to no binding.
C19_StrictParse ==
    LET toks == config_file.tokens
    IN  (hook_pc # "spawned"
         /\ (~AllRecognized(toks) \/ Cardinality(KeyTokens(toks)) > 1))
            => ~parse_hotkey(config_hotkey).some

\* C20: a text of recognized modifier tokens and one recognized key token,
\* in any order, casing, alias and repetition, parses to the binding of that
\* key with exactly the modifiers named, and that binding is installed.
C20_ParseByMeaning ==
    LET toks == config_file.tokens
    IN  (AllRecognized(toks) /\ Cardinality(KeyTokens(toks)) = 1) =>
            LET key == toks[CHOOSE i \in KeyTokens(toks) : TRUE].vk
                mask == MaskOf(ModifiersNamed(toks))
            IN  /\ parse_hotkey(config_hotkey) =
                      [some |-> TRUE, modifiers |-> mask, vk |-> key]
                /\ hook_pc # "spawned" =>
                      HOOK_STATE = [some |-> TRUE, hotkey_modifiers |-> mask,
                                    hotkey_vk |-> key]

\* "Windows+B+win": the key in the middle, the modifier twice under two
\* names, capitals; Win+B is installed.
C20_Witness ==
    /\ config_hotkey = <<"W","i","n","d","o","w","s","+","B","+","w","i","n">>
    /\ hook_installed
    /\ HOOK_STATE = [some |-> TRUE, hotkey_modifiers |-> MOD_WIN, hotkey_vk |-> VK_B]

\* C21: the text of a binding, any modifier set with a letter, a digit,
\* f1..f24 or a named key, parses to that binding: the same modifier set and
\* the same trigger key, and that binding is what the hook installs.
C21_RoundTrip ==
    /\ parse_hotkey(config_hotkey) =
          [some |-> TRUE, modifiers |-> config_file.modifiers, vk |-> config_file.vk]
    /\ hook_pc # "spawned" =>
          HOOK_STATE = [some |-> TRUE, hotkey_modifiers |-> config_file.modifiers,
                        hotkey_vk |-> config_file.vk]

\* "alt+shift+f": the letter whose name starts like a function key.
C21_Witness ==
    /\ config_hotkey = <<"a","l","t","+","s","h","i","f","t","+","f">>
    /\ hook_installed
    /\ HOOK_STATE = [some |-> TRUE, hotkey_modifiers |-> MOD_ALT + MOD_SHIFT,
                     hotkey_vk |-> VK_A + 5]

\* C22: once the hook thread has computed its binding, no step changes it:
\* not opening the settings dialog, not saving a new hotkey (which changes
\* the UI loop's config and the file), not a key event or a menu toggle.
C22_BindingImmutable ==
    [][hook_pc # "spawned" => HOOK_STATE' = HOOK_STATE]_vars

\* A new hotkey has been saved from the dialog, and the installed hook still
\* matches against the binding computed at startup.
C22_Witness ==
    /\ hook_installed
    /\ ui_pc = "quit_posted"
    /\ ui_config = <<"s","h","i","f","t","+","a">>
    /\ config_file = FileWith(ui_config)
    /\ ui_config # config_hotkey
    /\ HOOK_STATE = startup_binding(config_hotkey)
    /\ HOOK_STATE # startup_binding(ui_config)

\* C23 as stated: should_quit is written once in a run, and not again.
C23_SingleWrite ==
    n_quit_stores <= 1

\* C23, amended: should_quit starts false, is true exactly when it has been
\* stored to, every store writes true so it never returns to false, and a
\* run stores to it at most twice: once by the UI loop (Exit, or a WM_QUIT)
\* and once by main after run_tray_loop has returned, which main always does
\* before it joins the hook thread.
C23_QuitSetAndKept ==
    /\ [](/\ should_quit <=> n_quit_stores >= 1
          /\ n_quit_stores <= 2
          /\ ui_pc \in {"join", "exited"} => should_quit)
    /\ [][should_quit => should_quit']_vars

\* Exit was chosen in the menu, the loop stored the flag, and main has
\* stored it again.
C23_Witness ==
    /\ ui_pc = "join"
    /\ should_quit
    /\ n_quit_stores = 2

\* What the event, the lock state the callback loaded and the modifiers the
\* OS reports held decide, for a binding: whether the hotkey matched, what
\* the policy returns, and the lock state the callback leaves.
Decision(hs, vk, is_keydown, is_locked, held) ==
    LET matched == /\ is_keydown
                   /\ vk \notin ModifierCodes
                   /\ vk = hs.hotkey_vk
                   /\ held = RequiredModifiers(hs.hotkey_modifiers)
    IN  [matched |-> matched,
         policy |-> IF matched THEN "swallow"
                    ELSE IF ~is_locked THEN "none"
                    ELSE IF vk \in ModifierCodes THEN "forward"
                    ELSE "swallow",
         locked_after |-> IF matched THEN ~is_locked ELSE is_locked]

\* C24: what the callback does with an event is a function of the event, the
\* lock state it loaded and the modifiers the OS reports held at that moment,
\* and of nothing that went before: two histories that end alike get the same
\* match, the same policy result and returned value, and the same lock state.
C24_Memoryless ==
    (last.valid /\ last.code >= 0 /\ HOOK_STATE.some) =>
        LET d == Decision(HOOK_STATE, last.vk, last.is_keydown, last.is_locked,
                          last.held)
        IN  /\ last.matched = d.matched
            /\ last.policy = d.policy
            /\ last.locked_after = d.locked_after
            /\ last.verdict = hook_proc_return(last.code, d.policy)

\* The last event the callback saw was the keydown of Control; its key-up was
\* never delivered, the OS reports Control released, and a keydown of B that
\* arrives now is not a match of Control+B.
C24_Witness ==
    /\ hook_installed /\ hook_pc = "pump" /\ ~cb.active
    /\ HOOK_STATE = ControlB
    /\ last.valid /\ last.code >= 0 /\ last.vk = VK_LCONTROL /\ last.is_keydown
    /\ key_state = {}
    /\ ~hook_closure(HOOK_STATE, locked, VK_B, TRUE, key_state).store

\* C25: the overlay follows the lock state; in particular, while the state is
\* the initial UNLOCKED one and nothing has toggled it yet, the overlay is
\* not visible, however often the UI loop has polled.
C25_HiddenBeforeFirstToggle ==
    (~locked /\ n_hotkey = 0 /\ n_menu = 0) => ~overlay.visible

\* C26: after the poll of a UI-loop iteration the lock item reads "Unlock
\* Keyboard" if the lock state the iteration observed (kept in prev_locked)
\* is LOCKED and "Lock Keyboard" if not, with or without an overlay window.
C26_LabelFollowsObserved ==
    ui_pc # "setup" =>
        lock_text = (IF prev_locked THEN "Unlock Keyboard" ELSE "Lock Keyboard")

\* C27: a key-up of a non-modifier key that arrives while LOCKED, the key-up
\* of the trigger key after the locking chord included, is swallowed, and the
\* state stays LOCKED.
C27_LockedKeyupSwallowed ==
    (/\ last.valid /\ last.code >= 0
     /\ ~last.is_keydown
     /\ last.vk \notin ModifierCodes
     /\ last.is_locked)
        => (Swallowed(last) /\ last.locked_after)

\* C28: whenever the policy inside HOOK_STATE.with decided to swallow, on a
\* matched hotkey or on a non-modifier event while LOCKED, the procedure
\* returns the swallow result to the OS.
C28_ReturnsPolicyVerdict ==
    (last.valid /\ last.policy = "swallow") => last.verdict = "swallow"

\* Keys that hold down exactly the modifiers of a mask.
KeysFor(mask) ==
    (IF HasBit(mask, MOD_CONTROL) THEN {VK_LCONTROL} ELSE {})
    \cup (IF HasBit(mask, MOD_SHIFT) THEN {VK_LSHIFT} ELSE {})
    \cup (IF HasBit(mask, MOD_ALT) THEN {VK_LMENU} ELSE {})
    \cup (IF HasBit(mask, MOD_WIN) THEN {VK_LWIN} ELSE {})

\* C29: no key the always-forward rule takes for a modifier is in the
\* blocked-key table, and no trigger key the parser produces is taken for a
\* modifier: the binding the hook has is triggered by the keydown of its
\* trigger key with its modifiers held.
C29_ClassificationConsistent ==
    /\ \A vk \in BLOCKED_KEYS : ~is_modifier_vk(vk)
    /\ LET b == parse_hotkey(config_hotkey)
       IN  b.some => ~is_modifier_vk(b.vk)
    /\ (hook_pc # "spawned" /\ HOOK_STATE.some) =>
          /\ ~is_modifier_vk(HOOK_STATE.hotkey_vk)
          /\ hotkey_pressed(HOOK_STATE, HOOK_STATE.hotkey_vk, TRUE,
                            KeysFor(HOOK_STATE.hotkey_modifiers))

\* The hook is installed with Control+NumLock, parsed from "ctrl+numlock":
\* the trigger key is in the blocked-key table and is not a modifier.
C29_Witness ==
    /\ hook_installed
    /\ config_hotkey = <<"c","t","r","l","+","n","u","m","l","o","c","k">>
    /\ HOOK_STATE = [some |-> TRUE, hotkey_modifiers |-> MOD_CONTROL, hotkey_vk |-> 144]
    /\ HOOK_STATE.hotkey_vk \in BLOCKED_KEYS
    /\ ~is_modifier_vk(HOOK_STATE.hotkey_vk)

C31_DialogNeverQuits ==
    [][(ui_pc \in {"dialog", "quit_posted"}) => (should_quit' = should_quit)]_vars

\* C32: where the installation of the hook has failed, the lock state stays
\* UNLOCKED: the keyboard is not reported locked with no hook to block keys.
C32_LockedOnlyWhileHooked ==
    hook_pc = "panicked" => ~locked

====
